---- MODULE Spec2Model ----
(***************************************************************************)
(* Model of the load-test engine of BenchmarkPro (src/main.go,             *)
(* runLoadTest): K concurrent workers (executeUser) send requests against  *)
(* one target, append their results to a shared log under resultsMutex,    *)
(* keep running counters, report progress and partial statistics, and      *)
(* stop on a count rule, a duration rule or a cancellation signal.         *)
(*                                                                         *)
(* Time is a discrete clock `now` in seconds that may advance between any  *)
(* two steps of the program: every time.Now() of the source is a read of   *)
(* `now` in the step that models the line.  Durations are kept in the same *)
(* unit (the source keeps milliseconds; only their order and sums matter). *)
(* A float64 quotient is kept as the exact fraction [num, den].            *)
(*                                                                         *)
(* Further specifications cover the final statistics pass on its own       *)
(* (SpecStats), generateHMACSignature (SpecSig), and the handler of the    *)
(* run button in main together with the runs it starts (SpecMain).         *)
(***************************************************************************)
EXTENDS Integers, Sequences, FiniteSets, TLC

\* ------------------------------------------------------------------ bounds
MaxUsers == 2        \* worker slots of the model
MaxLog == 2          \* duration mode: a worker leaves its pause only while the log is shorter
TickStep == 5        \* seconds by which the clock advances in one step
CountHorizon == 1    \* count mode: the clock advances only while now < CountHorizon
Slack == 1           \* duration mode: the clock advances only while now < Duration + Slack
MaxSample == 21      \* longest log handed to the final statistics pass on its own
MaxStride == 3       \* largest step between the durations of such a log
MaxSecretLen == 2    \* longest secret key handed to generateHMACSignature
MaxCalls == 2        \* calls of generateHMACSignature that are compared
MaxLines == 3        \* lines of a raw header block
MaxTaps == 3         \* taps on the run button

\* ------------------------------------------------------- program constants
Timeout == 10            \* http.Client{Timeout: 10 * time.Second}; 10*time.Second headroom
MinSentinel == 999999    \* minDur := 999999.0
ThrottleEvery == 5       \* currentTotal%5 == 0
BlockSize == 64          \* hmac.New(sha256.New, key): block size of SHA-256 in bytes
IPad == 54               \* hmac.New: inner pad byte 0x36
OPad == 92               \* hmac.New: outer pad byte 0x5c

VARIABLES
    cfg,            \* RequestConfig of the run (read-only)
    env,            \* the target and the caller: possible outcomes, whether the caller cancels
    now,            \* wall clock, seconds
    startTime,      \* startTime := time.Now()
    endTime,        \* endTime (meaningful in duration mode)
    cancelled,      \* cancelChan has been closed
    results,        \* the shared result log
    successCount,
    totalDuration,
    minDur,
    maxDur,
    resultsMutex,   \* 0 = unlocked, w = held by worker w
    pc,             \* position of every worker in executeUser
    local,          \* local variables of every worker
    pcMain,         \* position of runLoadTest itself
    ret,            \* the pair returned by runLoadTest
    lastProgress,   \* the last value handed to the progress sink
    progressCalls,  \* number of calls of the progress sink
    lastPartial,    \* the last pair handed to the partial-update sink
    partialTotals,  \* Total of every pair handed to the partial-update sink, in order
    sentAfterCancel,\* per worker: requests sent while the signal was already raised
    logAtCancel,    \* the log at the moment the signal was raised
    sendCount,      \* number of requests sent so far
    buildFailed,    \* per worker: http.NewRequest has failed in some iteration
    progressDropped,\* number of values the progress sink of main has dropped in this run
    isRunning,      \* main: var isRunning bool
    cancelChan,     \* main: var cancelChan chan bool (id 0 is the nil channel)
    runBtn,         \* main: text and enabled state of the run button
    form,           \* main: the entries of the form as read by the last tap
    pcBg,           \* main: position of the background goroutines of a run
    delivered,      \* main: the pair received from resultChan and statsChan
    uiPanic,        \* main: the panic that ended the process, if any
    taps,           \* number of taps handled by runBtn.OnTapped
    chansMade,      \* number of channels made for cancelChan
    closeCount,     \* number of close(cancelChan) calls on the current channel
    errorDialogs,   \* number of dialog.ShowError calls
    pcDone,         \* main: position of the completion goroutine of the run
    pcProg,         \* main: per run, position of the progress consumer goroutine
    pcDefer,        \* main: per run, position in the deferred closes of the background goroutine
    chans,          \* main: per run, resultChan, statsChan and progressChan
    sigCalls,       \* the calls of generateHMACSignature made so far
    req             \* the request built last: configuration, timestamp, headers

vars == <<cfg, env, now, startTime, endTime, cancelled, results, successCount,
          totalDuration, minDur, maxDur, resultsMutex, pc, local, pcMain, ret,
          lastProgress, progressCalls, lastPartial, partialTotals,
          sentAfterCancel, logAtCancel, sendCount, buildFailed, progressDropped, isRunning,
          cancelChan,
          runBtn, form, pcBg, delivered, uiPanic, taps, chansMade, closeCount,
          errorDialogs, pcDone, pcProg, pcDefer, chans, sigCalls,
          req>>

Workers == 1..MaxUsers

\* ------------------------------------------------------------ pure helpers
\* Go integer division truncates toward zero.
GoDiv(a, b) ==
    IF a >= 0 THEN a \div b ELSE -((-a) \div b)

Frac(n, d) == [num |-> n, den |-> d]

ZeroFrac == Frac(0, 1)

UsersUnclamped(c) ==
    c.ConcurrentUsers

\* users := cfg.ConcurrentUsers; if users < 1 { users = 1 }
Users(c) ==
    IF c.ConcurrentUsers < 1 THEN 1 ELSE c.ConcurrentUsers

\* useDuration := cfg.Duration > 0
useDuration ==
    cfg.Duration > 0

\* outcome of client.Do: a transport error, or a response with a status code
ErrOutcome == [err |-> TRUE, code |-> 0]
Response(code) == [err |-> FALSE, code |-> code]

\* resp, err before client.Do has returned
NoOutcome == [err |-> FALSE, code |-> 0]

\* status := 0; if err == nil { status = resp.StatusCode }
StatusOf(o) ==
    IF o.err THEN 0 ELSE o.code

IsSuccessInclusive(status) ==
    status >= 200 /\ status <= 400

\* status >= 200 && status < 400
IsSuccess(status) ==
    status >= 200 /\ status < 400

\* the zero BenchmarkStats
ZeroStats ==
    [Avg |-> ZeroFrac, Min |-> 0, Max |-> 0, P90 |-> 0, P95 |-> 0, P99 |-> 0,
     Success |-> 0, Total |-> 0, ErrorRate |-> 0,
     RequestsPerSecond |-> ZeroFrac, TotalDuration |-> 0]

\* the local variables of a worker at the start of an iteration
FreshLocal ==
    [currentTotal |-> 0, tcheck |-> 0, start |-> 0, outcome |-> NoOutcome,
     duration |-> 0, status |-> 0, resultsCopy |-> <<>>, partialStats |-> ZeroStats]

\* durations[i] = r.Duration
Durations(log) ==
    [i \in 1..Len(log) |-> log[i].Duration]

Swap(d, i, j) ==
    [d EXCEPT ![i] = d[j], ![j] = d[i]]

RECURSIVE SortInner(_, _, _)
\* for j := i + 1; j < len(durations); j++ { if durations[i] > durations[j] { swap } }
SortInner(d, i, j) ==
    IF j > Len(d) THEN d
    ELSE CHOOSE r \in { SortInner(x, i, j + 1) :
                          x \in {IF d[i] > d[j] THEN Swap(d, i, j) ELSE d} } : TRUE

RECURSIVE SortOuter(_, _)
\* for i := 0; i < len(durations); i++ { ... }
SortOuter(d, i) ==
    IF i > Len(d) THEN d
    ELSE CHOOSE r \in { SortOuter(x, i + 1) : x \in {SortInner(d, i, i + 1)} } : TRUE

SortDurationsUnsorted(d) ==
    d

SortDurations(d) ==
    SortOuter(d, 1)

PercentileIndexFromTop(pct, n) ==
    LET idx == (pct * n) \div 100
    IN  (n - 1) - (IF idx >= n THEN n - 1 ELSE idx)

\* int(0.9 * float64(n)) and its clamp, as a 0-based index (pct in {90, 95, 99})
PercentileIndex(pct, n) ==
    LET idx == (pct * n) \div 100
    IN  IF idx >= n THEN n - 1 ELSE idx

StatsTotalFromCount(log) ==
    cfg.Count

\* Total: len(results)
StatsTotal(log) ==
    Len(log)

\* the percentiles of the sorted durations d (len(durations) > 0)
WithPercentiles(stats, d) ==
    IF Len(d) > 0
    THEN [stats EXCEPT !.P90 = d[PercentileIndex(90, Len(d)) + 1],
                       !.P95 = d[PercentileIndex(95, Len(d)) + 1],
                       !.P99 = d[PercentileIndex(99, Len(d)) + 1]]
    ELSE stats

EmptyStatsKeepsSentinel(base) ==
    base

\* } else { stats.Min = 0 }
EmptyStats(base) ==
    [base EXCEPT !.Min = 0]

\* the final statistics pass of runLoadTest
FinalStats(log, success, total, mn, mx, clock) ==
    LET d == SortDurations(Durations(log))
        base == [ZeroStats EXCEPT !.Total = StatsTotal(log), !.Success = success,
                                  !.Min = mn, !.Max = mx, !.TotalDuration = total]
    IN  IF base.Total > 0
        THEN WithPercentiles(
                 [base EXCEPT !.Avg = Frac(total, base.Total),
                              !.ErrorRate = GoDiv((base.Total - base.Success) * 100,
                                                  base.Total),
                              !.RequestsPerSecond = Frac(base.Total, clock - startTime)],
                 d)
        ELSE EmptyStats(base)

\* ------------------------------------------------------------- the inputs
Config(count, duration, users, valid) ==
    [Count |-> count, Duration |-> duration, ConcurrentUsers |-> users, Valid |-> valid]

Env(outcomes, cancels) ==
    [outcomes |-> outcomes, cancels |-> cancels]

AnyOutcome == {ErrOutcome, Response(200), Response(400)}

Scenarios ==
    { <<Config(0, 0, 1, TRUE),   Env(AnyOutcome, TRUE)>>,
      <<Config(1, 0, 2, TRUE),   Env(AnyOutcome, TRUE)>>,
      <<Config(2, 0, 0, TRUE),   Env(AnyOutcome, TRUE)>>,
      <<Config(2, 0, 2, TRUE),   Env({Response(200)}, FALSE)>>,
      <<Config(1, 0, 1, FALSE),  Env(AnyOutcome, TRUE)>>,
      <<Config(5, 0, 2, TRUE),   Env({Response(200)}, FALSE)>>,
      <<Config(1, 2, 2, TRUE),   Env(AnyOutcome, TRUE)>>,
      <<Config(1, 10, 1, TRUE),  Env(AnyOutcome, TRUE)>> }

\* the runs explored under the fairness conditions
FairScenarios ==
    { <<Config(5, 0, 1, TRUE),   Env({Response(200)}, TRUE)>>,
      <<Config(1, 0, 2, TRUE),   Env({ErrOutcome, Response(200)}, TRUE)>>,
      <<Config(1, 0, 1, FALSE),  Env(AnyOutcome, TRUE)>>,
      <<Config(1, 10, 1, TRUE),  Env({ErrOutcome, Response(200)}, TRUE)>>,
      <<Config(1, 2, 2, TRUE),   Env(AnyOutcome, TRUE)>> }

\* a long count-mode run of two workers, and a short duration-mode run
LongScenarios ==
    { <<Config(10, 0, 2, TRUE),  Env({Response(200)}, FALSE)>>,
      <<Config(1, 10, 1, TRUE),  Env({ErrOutcome, Response(200)}, TRUE)>> }

\* the clock of the model advances only while now < Horizon
Horizon ==
    IF useDuration THEN cfg.Duration + Slack ELSE CountHorizon

\* the runs started by main, named by the number of their cancelChan
RunIds == 1..MaxTaps

\* the run whose channels the handler made last
CurrentRun == cancelChan.id

\* a channel nothing has been sent on, not closed
FreshChan == [closed |-> FALSE, sent |-> 0]

\* resultChan, statsChan and progressChan as made by the handler
FreshChans ==
    [resultChan |-> FreshChan, statsChan |-> FreshChan,
     progressChan |-> [closed |-> FALSE]]

\* the channel closed by the deferred call at the given position
DeferredChan(p) ==
    CASE p = "closeStats" -> "statsChan"
      [] p = "closeResult" -> "resultChan"
      [] p = "closeProgress" -> "progressChan"

\* deferred calls run last in, first out; after the last one the goroutine ends
AfterClose(p) ==
    CASE p = "closeStats" -> "closeResult"
      [] p = "closeResult" -> "closeProgress"
      [] p = "closeProgress" -> "exited"

SinkReturnsWhenReceived ==
    pcProg[CurrentRun] = "recv"

\* select { case progressChan <- p: default: }: the sink returns whether or
\* not a receiver is waiting
SinkReturns ==
    TRUE

\* the progress sink handed to runLoadTest by main: a send on a closed channel
\* panics; the value is taken by the consumer if it is waiting at its
\* receive, and dropped otherwise. Any other caller's sink touches nothing
\* of main.
ProgressSink ==
    IF pcBg # "loadtest"
    THEN UNCHANGED <<uiPanic, pcProg, chans, progressDropped>>
    ELSE /\ SinkReturns
         /\ IF chans[CurrentRun].progressChan.closed
            THEN /\ uiPanic' = "send on closed channel"
                 /\ UNCHANGED <<pcProg, chans, progressDropped>>
            ELSE IF pcProg[CurrentRun] = "recv"
                 THEN /\ pcProg' = [pcProg EXCEPT ![CurrentRun] = "busy"]
                      /\ UNCHANGED <<uiPanic, chans, progressDropped>>
                 ELSE /\ progressDropped' = progressDropped + 1
                      /\ UNCHANGED <<uiPanic, pcProg, chans>>

\* ------------------------------------------------------- the run button
NilChan == [id |-> 0, closed |-> FALSE]

\* widget.NewButtonWithIcon("Ejecutar Request", theme.MediaPlayIcon(), nil)
IdleButton == [text |-> "Ejecutar Request", enabled |-> TRUE]

\* the entries of the form before anything is typed
EmptyForm ==
    [url |-> "", mode |-> "Por Cantidad", countText |-> <<>>,
     durationText |-> <<>>, unit |-> "Segundos", usersText |-> <<>>]

\* no request has been built
NoRequest ==
    [cfg |-> [Headers |-> <<>>, ContentType |-> <<>>, User |-> <<>>,
              Secret |-> <<>>],
     timestamp |-> <<>>, Header |-> <<>>, signed |-> <<>>, built |-> FALSE]

\* main after the window has been built: no run, nil channel
InitCaller ==
    /\ isRunning = FALSE
    /\ cancelChan = NilChan
    /\ runBtn = IdleButton
    /\ form = EmptyForm
    /\ pcBg = "none"
    /\ delivered = [results |-> <<>>, stats |-> ZeroStats]
    /\ uiPanic = "none"
    /\ taps = 0
    /\ chansMade = 0
    /\ closeCount = 0
    /\ errorDialogs = 0
    /\ pcDone = "none"
    /\ pcProg = [r \in RunIds |-> "none"]
    /\ pcDefer = [r \in RunIds |-> "none"]
    /\ chans = [r \in RunIds |-> FreshChans]
    /\ sigCalls = <<>>
    /\ req = NoRequest

\* -------------------------------------------------------------------- Init
InitFrom(scenarios) ==
    /\ \E s \in scenarios : cfg = s[1] /\ env = s[2]
    /\ now = 0
    /\ startTime = 0
    /\ endTime = IF cfg.Duration > 0 THEN cfg.Duration ELSE 0
    /\ cancelled = FALSE
    /\ results = <<>>
    /\ successCount = 0
    /\ totalDuration = 0
    /\ minDur = MinSentinel
    /\ maxDur = 0
    /\ resultsMutex = 0
    /\ pc = [w \in Workers |-> "idle"]
    /\ local = [w \in Workers |-> FreshLocal]
    /\ pcMain = "spawn"
    /\ ret = [results |-> <<>>, stats |-> ZeroStats]
    /\ lastProgress = ZeroFrac
    /\ progressCalls = 0
    /\ lastPartial = [results |-> <<>>, stats |-> ZeroStats]
    /\ partialTotals = <<>>
    /\ sentAfterCancel = [w \in Workers |-> 0]
    /\ logAtCancel = <<>>
    /\ sendCount = 0
    /\ buildFailed = [w \in Workers |-> FALSE]
    /\ progressDropped = 0
    /\ InitCaller

Init == InitFrom(Scenarios)

InitFair == InitFrom(FairScenarios)

InitLong == InitFrom(LongScenarios)

\* Logs for the final statistics pass alone: the log of a finished count-mode
\* run of one worker against a target whose response times either cycle
\* ((a*i) % m) or fall from m-1 in steps of a down to 0.
SampleModuli == {2, 5, Timeout + 1}

SampleShapes ==
    [kind : {"cycle", "ramp"}, a : 1..MaxStride, m : SampleModuli]

SampleDuration(shape, i) ==
    IF shape.kind = "cycle"
    THEN (shape.a * i) % shape.m
    ELSE IF shape.m - 1 - shape.a * (i - 1) > 0
         THEN shape.m - 1 - shape.a * (i - 1)
         ELSE 0

SampleStatus(i) ==
    IF i % 3 = 0 THEN 400 ELSE IF i % 7 = 0 THEN 0 ELSE 200

RECURSIVE SampleStart(_, _)
\* the clock reading at which request i of the sequential run was sent
SampleStart(shape, i) ==
    IF i = 1 THEN 0
    ELSE SampleStart(shape, i - 1) + SampleDuration(shape, i - 1)

SampleLog(shape, n) ==
    [i \in 1..n |-> [Seq |-> i, Timestamp |-> SampleStart(shape, i),
                     Duration |-> SampleDuration(shape, i),
                     Status |-> SampleStatus(i)]]

\* the least and the greatest of a non-empty set of numbers
LeastOf(S) == CHOOSE x \in S : \A y \in S : x <= y
GreatestOf(S) == CHOOSE x \in S : \A y \in S : x >= y

\* runLoadTest at wg.Wait(): its only worker has recorded n results and has
\* left the loop at the size test; the sinks of this run are nil
InitStats ==
    \E n \in 1..MaxSample : \E shape \in SampleShapes :
        LET log == SampleLog(shape, n)
            durs == {log[i].Duration : i \in 1..n}
        IN  /\ cfg = Config(n, 0, 1, TRUE)
            /\ env = Env(AnyOutcome, FALSE)
            /\ now = SampleStart(shape, n + 1)
            /\ startTime = 0
            /\ endTime = 0
            /\ cancelled = FALSE
            /\ results = log
            /\ successCount = Cardinality({i \in 1..n : IsSuccess(log[i].Status)})
            /\ totalDuration = SampleStart(shape, n + 1)
            /\ minDur = LeastOf(durs)
            /\ maxDur = GreatestOf(durs)
            /\ resultsMutex = 0
            /\ pc = [w \in Workers |-> IF w = 1 THEN "done" ELSE "idle"]
            /\ local = [w \in Workers |->
                           IF w = 1 THEN [FreshLocal EXCEPT !.currentTotal = n]
                           ELSE FreshLocal]
            /\ pcMain = "wait"
            /\ ret = [results |-> <<>>, stats |-> ZeroStats]
            /\ lastProgress = ZeroFrac
            /\ progressCalls = 0
            /\ lastPartial = [results |-> <<>>, stats |-> ZeroStats]
            /\ partialTotals = <<>>
            /\ sentAfterCancel = [w \in Workers |-> 0]
            /\ logAtCancel = <<>>
            /\ sendCount = n
            /\ buildFailed = [w \in Workers |-> FALSE]
            /\ progressDropped = 0
            /\ InitCaller

\* ------------------------------------------------------------ environment
envVars == <<cfg, env, startTime, endTime>>
sharedVars == <<results, successCount, totalDuration, minDur, maxDur>>
sinkVars == <<lastProgress, progressCalls, lastPartial, partialTotals>>
mainVars == <<pcMain, ret>>
ghostVars == <<sentAfterCancel, logAtCancel, sendCount, buildFailed,
              progressDropped>>
uiVars == <<isRunning, cancelChan, runBtn, form, pcBg, delivered, uiPanic,
            taps, chansMade, closeCount, errorDialogs>>
chanVars == <<pcDone, pcProg, pcDefer, chans>>
callerVars == <<uiVars, chanVars, sigCalls, req>>

\* the clock advances; a request in flight ends within the client timeout
Tick ==
    /\ pcMain # "done"
    /\ now < Horizon
    /\ \A w \in Workers : pc[w] = "inflight" => now - local[w].start < Timeout
    /\ now' = now + TickStep
    /\ UNCHANGED <<callerVars, envVars, cancelled, sharedVars, resultsMutex, pc, local,
                   mainVars, sinkVars, ghostVars>>

\* close(cancelChan)
Cancel ==
    /\ env.cancels
    /\ pcMain # "done"
    /\ ~cancelled
    /\ cancelled' = TRUE
    /\ logAtCancel' = results
    /\ UNCHANGED <<callerVars, envVars, now, sharedVars, resultsMutex, pc, local, mainVars,
                   sinkVars, sentAfterCancel, sendCount, buildFailed, progressDropped>>

\* ------------------------------------------------------------ runLoadTest
\* for i := 0; i < users; i++ { wg.Add(1); go executeUser(i) }
Spawn ==
    /\ pcMain = "spawn"
    /\ pcMain' = "wait"
    /\ pc' = [w \in Workers |-> IF w <= Users(cfg) THEN "top" ELSE "idle"]
    /\ UNCHANGED <<callerVars, envVars, now, cancelled, sharedVars, resultsMutex, local, ret,
                   sinkVars, ghostVars>>

\* wg.Wait(), the sort, the final statistics and the return
WaitAndReturn ==
    /\ pcMain = "wait"
    /\ \A w \in Workers : pc[w] \in {"idle", "done"}
    /\ resultsMutex = 0
    /\ ret' = [results |-> results,
               stats |-> FinalStats(results, successCount, totalDuration,
                                    minDur, maxDur, now)]
    /\ pcMain' = "done"
    /\ UNCHANGED <<callerVars, envVars, now, cancelled, sharedVars, resultsMutex, pc, local,
                   sinkVars, ghostVars>>

\* ------------------------------------------------------------ executeUser
\* Every step of a worker holds at most one access to the shared memory or
\* to the clock.  A Lock()/Unlock() pair around a single access is one step
\* that needs the mutex free; the long critical section keeps the mutex over
\* three steps.  Local variables are declared per iteration, so they are
\* reset when the worker goes back to the top of the loop.
Goto(w, label) ==
    pc' = [pc EXCEPT ![w] = label]

\* end of an iteration: time.Sleep(10 * time.Millisecond) and back to the top
NextIteration(w) ==
    /\ pc' = [pc EXCEPT ![w] = "top"]
    /\ local' = [local EXCEPT ![w] = FreshLocal]

ObservesCancelNever(w) ==
    FALSE

\* case <-cancelChan:
ObservesCancel(w) ==
    cancelled

NoHeadroomInclusive(t) ==
    t + Timeout >= endTime

NoHeadroomNoMargin(t) ==
    t > endTime

\* time.Now().Add(10*time.Second).After(endTime)
NoHeadroom(t) ==
    t + Timeout > endTime

\* the pause ends; select { case <-cancelChan: return; default: }
\* (in duration mode the model keeps a worker paused once the log holds
\* MaxLog results, until the signal is raised or the headroom is used up)
CheckCancel(w) ==
    /\ pc[w] = "top"
    /\ cancelled \/ ~useDuration \/ Len(results) < MaxLog \/ NoHeadroom(now)
    /\ IF ObservesCancel(w) THEN Goto(w, "done") ELSE Goto(w, "stop")
    /\ UNCHANGED <<callerVars, envVars, now, cancelled, sharedVars, resultsMutex, local,
                   mainVars, sinkVars, ghostVars>>

CountReachedStrict(total) ==
    total > cfg.Count

\* currentTotal >= cfg.Count
CountReached(total) ==
    total >= cfg.Count

\* if useDuration { if time.Now().After(endTime) { break } }
\* else { Lock; currentTotal := len(results); Unlock; if currentTotal >= cfg.Count { break } }
CheckStop(w) ==
    /\ pc[w] = "stop"
    /\ IF useDuration
       THEN /\ IF now > endTime THEN Goto(w, "done") ELSE Goto(w, "headroom")
            /\ UNCHANGED local
       ELSE /\ resultsMutex = 0
            /\ local' = [local EXCEPT ![w].currentTotal = Len(results)]
            /\ IF CountReached(Len(results)) THEN Goto(w, "done") ELSE Goto(w, "send")
    /\ UNCHANGED <<callerVars, envVars, now, cancelled, sharedVars, resultsMutex, mainVars,
                   sinkVars, ghostVars>>

\* if useDuration && time.Now().Add(10*time.Second).After(endTime) { break }
Headroom(w) ==
    /\ pc[w] = "headroom"
    /\ local' = [local EXCEPT ![w].tcheck = now]
    /\ IF NoHeadroom(now) THEN Goto(w, "done") ELSE Goto(w, "send")
    /\ UNCHANGED <<callerVars, envVars, now, cancelled, sharedVars, resultsMutex, mainVars,
                   sinkVars, ghostVars>>

BuildFailsNever(c) ==
    FALSE

\* req, err := http.NewRequest(cfg.Method, cfg.URL, bodyReader): err != nil
\* for a method or URL that does not parse
BuildFails(c) ==
    ~c.Valid

\* req, err := http.NewRequest(...); if err == nil { ...; start := time.Now();
\* client.Do(req) is issued } else the iteration ends at the pause
Send(w) ==
    /\ pc[w] = "send"
    /\ IF BuildFails(cfg)
       THEN /\ NextIteration(w)
            /\ buildFailed' = [buildFailed EXCEPT ![w] = TRUE]
            /\ UNCHANGED <<sentAfterCancel, sendCount>>
       ELSE /\ local' = [local EXCEPT ![w].start = now]
            /\ Goto(w, "inflight")
            /\ sentAfterCancel' = [sentAfterCancel EXCEPT
                                     ![w] = IF cancelled THEN @ + 1 ELSE @]
            /\ sendCount' = sendCount + 1
            /\ UNCHANGED buildFailed
    /\ UNCHANGED <<callerVars, envVars, now, cancelled, sharedVars, resultsMutex, mainVars,
                   sinkVars, logAtCancel, progressDropped>>

AfterResponseStopOnError(o) ==
    IF o.err THEN "done"
    ELSE IF IsSuccess(StatusOf(o)) THEN "succ" ELSE "rec"

\* if err == nil { ...; if status >= 200 && status < 400 { Lock; successCount++ } }
\* and then, in every case, the result is recorded
AfterResponse(o) ==
    IF ~o.err /\ IsSuccess(StatusOf(o)) THEN "succ" ELSE "rec"

\* client.Do returns; duration := time.Since(start); status
Recv(w) ==
    /\ pc[w] = "inflight"
    /\ \E o \in env.outcomes :
          /\ local' = [local EXCEPT ![w].outcome = o,
                                    ![w].duration = now - local[w].start,
                                    ![w].status = StatusOf(o)]
          /\ Goto(w, AfterResponse(o))
    /\ UNCHANGED <<callerVars, envVars, now, cancelled, sharedVars, resultsMutex, mainVars,
                   sinkVars, ghostVars>>

\* resultsMutex.Lock(); successCount++; resultsMutex.Unlock()
SuccInc(w) ==
    /\ pc[w] = "succ"
    /\ resultsMutex = 0
    /\ successCount' = successCount + 1
    /\ Goto(w, "rec")
    /\ UNCHANGED <<callerVars, envVars, now, cancelled, results, totalDuration, minDur,
                   maxDur, resultsMutex, local, mainVars, sinkVars, ghostVars>>

AccumulatedLast(total, duration) ==
    duration

\* totalDuration += duration
Accumulated(total, duration) ==
    total + duration

\* resultsMutex.Lock(); totalDuration += duration
AccTotal(w) ==
    /\ pc[w] = "rec"
    /\ resultsMutex = 0
    /\ resultsMutex' = w
    /\ totalDuration' = Accumulated(totalDuration, local[w].duration)
    /\ Goto(w, "accMin")
    /\ UNCHANGED <<callerVars, envVars, now, cancelled, results, successCount, minDur,
                   maxDur, local, mainVars, sinkVars, ghostVars>>

\* if duration < minDur { minDur = duration }
AccMin(w) ==
    /\ pc[w] = "accMin"
    /\ minDur' = IF local[w].duration < minDur THEN local[w].duration ELSE minDur
    /\ Goto(w, "accMax")
    /\ UNCHANGED <<callerVars, envVars, now, cancelled, results, successCount,
                   totalDuration, maxDur, resultsMutex, local, mainVars,
                   sinkVars, ghostVars>>

NewResultStaleSeq(w) ==
    [Seq |-> local[w].currentTotal + 1, Timestamp |-> local[w].start,
     Duration |-> local[w].duration, Status |-> local[w].status]

\* BenchmarkResult{Seq: len(results) + 1, Timestamp: start, Duration, Status}
NewResult(w) ==
    [Seq |-> Len(results) + 1, Timestamp |-> local[w].start,
     Duration |-> local[w].duration, Status |-> local[w].status]

AppendedAtFront(log, r) ==
    <<r>> \o log

AppendedUnlessFailed(log, r) ==
    IF r.Status = 0 THEN log ELSE Append(log, r)

\* results = append(results, BenchmarkResult{...})
Appended(log, r) ==
    Append(log, r)

AppendResultKeepsLock(w) ==
    /\ pc[w] = "accMax"
    /\ maxDur' = IF local[w].duration > maxDur THEN local[w].duration ELSE maxDur
    /\ results' = Appended(results, NewResult(w))
    /\ local' = [local EXCEPT ![w].currentTotal = Len(results'),
                              ![w].resultsCopy = results']
    /\ Goto(w, "progress")
    /\ UNCHANGED <<callerVars, envVars, now, cancelled, successCount, totalDuration, minDur,
                   resultsMutex, mainVars, sinkVars, ghostVars>>

\* if duration > maxDur { maxDur = duration }; results = append(...);
\* currentTotal := len(results); copy(resultsCopy, results); Unlock
AppendResult(w) ==
    /\ pc[w] = "accMax"
    /\ maxDur' = IF local[w].duration > maxDur THEN local[w].duration ELSE maxDur
    /\ results' = Appended(results, NewResult(w))
    /\ local' = [local EXCEPT ![w].currentTotal = Len(results'),
                              ![w].resultsCopy = results']
    /\ resultsMutex' = 0
    /\ Goto(w, "progress")
    /\ UNCHANGED <<callerVars, envVars, now, cancelled, successCount, totalDuration, minDur,
                   mainVars, sinkVars, ghostVars>>

\* progressValue of one call of the progress sink
ProgressValue(w) ==
    IF useDuration
    THEN Frac(now - startTime, cfg.Duration)
    ELSE Frac(local[w].currentTotal, cfg.Count)

ThrottledNever(total) ==
    TRUE

\* realtimeUpdate != nil && currentTotal%5 == 0
Throttled(total) ==
    total % ThrottleEvery = 0

\* progress(progressValue), then the throttle test
Progress(w) ==
    /\ pc[w] = "progress"
    /\ lastProgress' = ProgressValue(w)
    /\ progressCalls' = progressCalls + 1
    /\ IF Throttled(local[w].currentTotal)
       THEN Goto(w, "psSuccess") /\ UNCHANGED local
       ELSE NextIteration(w)
    /\ ProgressSink
    /\ UNCHANGED <<isRunning, cancelChan, runBtn, form, pcBg, delivered, taps,
                   chansMade, closeCount, errorDialogs, pcDone, pcDefer,
                   sigCalls, req, envVars, now, cancelled, sharedVars, resultsMutex,
                   mainVars, lastPartial, partialTotals, sentAfterCancel,
                   logAtCancel, sendCount, buildFailed>>

\* partialStats := BenchmarkStats{Total: currentTotal, Success: successCount,
PsSuccess(w) ==
    /\ pc[w] = "psSuccess"
    /\ local' = [local EXCEPT ![w].partialStats =
                    [ZeroStats EXCEPT !.Total = local[w].currentTotal,
                                      !.Success = successCount]]
    /\ Goto(w, "psMin")
    /\ UNCHANGED <<callerVars, envVars, now, cancelled, sharedVars, resultsMutex, mainVars,
                   sinkVars, ghostVars>>

\* Min: minDur,
PsMin(w) ==
    /\ pc[w] = "psMin"
    /\ local' = [local EXCEPT ![w].partialStats.Min = minDur]
    /\ Goto(w, "psMax")
    /\ UNCHANGED <<callerVars, envVars, now, cancelled, sharedVars, resultsMutex, mainVars,
                   sinkVars, ghostVars>>

\* Max: maxDur,
PsMax(w) ==
    /\ pc[w] = "psMax"
    /\ local' = [local EXCEPT ![w].partialStats.Max = maxDur]
    /\ Goto(w, "psTotal")
    /\ UNCHANGED <<callerVars, envVars, now, cancelled, sharedVars, resultsMutex, mainVars,
                   sinkVars, ghostVars>>

\* TotalDuration: totalDuration}
PsTotal(w) ==
    /\ pc[w] = "psTotal"
    /\ local' = [local EXCEPT ![w].partialStats.TotalDuration = totalDuration]
    /\ Goto(w, "psCall")
    /\ UNCHANGED <<callerVars, envVars, now, cancelled, sharedVars, resultsMutex, mainVars,
                   sinkVars, ghostVars>>

\* if partialStats.Total > 0 { Avg, ErrorRate, RequestsPerSecond }
PartialDerived(ps, total, clock) ==
    IF ps.Total > 0
    THEN [ps EXCEPT !.Avg = Frac(total, ps.Total),
                    !.ErrorRate = GoDiv((ps.Total - ps.Success) * 100, ps.Total),
                    !.RequestsPerSecond = Frac(ps.Total, clock - startTime)]
    ELSE ps

\* the derived fields, then realtimeUpdate(resultsCopy, partialStats)
PsCall(w) ==
    /\ pc[w] = "psCall"
    /\ LET ps == PartialDerived(local[w].partialStats, totalDuration, now)
       IN  /\ lastPartial' = [results |-> local[w].resultsCopy, stats |-> ps]
           /\ partialTotals' = Append(partialTotals, ps.Total)
    /\ NextIteration(w)
    /\ UNCHANGED <<callerVars, envVars, now, cancelled, sharedVars, resultsMutex,
                   mainVars, lastProgress, progressCalls, ghostVars>>

WorkerStep(w) ==
    \/ CheckCancel(w)
    \/ CheckStop(w)
    \/ Headroom(w)
    \/ Send(w)
    \/ Recv(w)
    \/ SuccInc(w)
    \/ AccTotal(w)
    \/ AccMin(w)
    \/ AppendResult(w)
    \/ Progress(w)
    \/ PsSuccess(w)
    \/ PsMin(w)
    \/ PsMax(w)
    \/ PsTotal(w)
    \/ PsCall(w)

Next ==
    \/ Tick
    \/ Cancel
    \/ Spawn
    \/ WaitAndReturn
    \/ \E w \in Workers : WorkerStep(w)

Spec == Init /\ [][Next]_vars

SpecLong == InitLong /\ [][Next]_vars

\* ---------------------------------------------------- generateHMACSignature
\* Byte strings are sequences of numbers 0..255.  SHA-256 is kept as an
\* ideal hash: the digest of an input is the input under a tag, so that two
\* digests are equal exactly when their inputs are.  The keys of the model
\* are shorter than a block (hmac.New hashes longer keys first).
RECURSIVE XorByte(_, _, _)
\* bitwise exclusive or of the lowest `bits` bits of a and b
XorByte(a, b, bits) ==
    IF bits = 0 THEN 0
    ELSE ((a + b) % 2) + 2 * XorByte(a \div 2, b \div 2, bits - 1)

Sha256(bytes) ==
    [sha256 |-> bytes]

\* hex.EncodeToString
HexEncode(digest) ==
    [hex |-> digest]

PadKeyIgnored(key) ==
    [i \in 1..BlockSize |-> 0]

\* hmac.New: the key is extended with zero bytes to the block size
PadKey(key) ==
    [i \in 1..BlockSize |-> IF i <= Len(key) THEN key[i] ELSE 0]

XorPad(key, pad) ==
    [i \in 1..BlockSize |-> XorByte(key[i], pad, 8)]

\* h := hmac.New(sha256.New, []byte(secretKey)); h.Write([]byte(message));
\* return hex.EncodeToString(h.Sum(nil))
generateHMACSignature(secretKey, message) ==
    LET k0 == PadKey(secretKey)
        inner == Sha256(XorPad(k0, IPad) \o message)
    IN  HexEncode(Sha256(Append(XorPad(k0, OPad), inner)))

SecretBytes == {0, 97, 98}

Secrets ==
    UNION {[1..n -> SecretBytes] : n \in 0..MaxSecretLen}

\* the message signed by the callers is a formatted timestamp
Messages == {<<49>>, <<50>>}

\* one call of generateHMACSignature; the function reads its arguments only
SignCall ==
    /\ Len(sigCalls) < MaxCalls
    /\ \E secret \in Secrets : \E message \in Messages :
          sigCalls' = Append(sigCalls,
                             [secret |-> secret, message |-> message,
                              token |-> generateHMACSignature(secret, message)])
    /\ UNCHANGED <<uiVars, chanVars, req, envVars, now, cancelled, sharedVars,
                   resultsMutex, pc, local, mainVars, sinkVars, ghostVars>>

InitSig == InitFrom({<<Config(1, 0, 1, TRUE), Env(AnyOutcome, FALSE)>>})

NextSig ==
    SignCall

SpecSig == InitSig /\ [][NextSig]_vars

\* ------------------------------------------------ the headers of a request
\* Texts are sequences of characters.  The same statements build the request
\* in executeUser, in executeRequest and in the single-request path of main.
WhiteSpace == {" ", "\t", "\r", "\n"}

LowerLetters == <<"a", "e", "i", "j", "m", "p", "s", "t", "x">>
UpperLetters == <<"A", "E", "I", "J", "M", "P", "S", "T", "X">>

ToUpper(c) ==
    IF \E k \in 1..Len(LowerLetters) : LowerLetters[k] = c
    THEN UpperLetters[CHOOSE k \in 1..Len(LowerLetters) : LowerLetters[k] = c]
    ELSE c

ToLower(c) ==
    IF \E k \in 1..Len(UpperLetters) : UpperLetters[k] = c
    THEN LowerLetters[CHOOSE k \in 1..Len(UpperLetters) : UpperLetters[k] = c]
    ELSE c

\* the first position of sep in s, or 0
IndexOf(s, sep) ==
    IF \E i \in 1..Len(s) : s[i] = sep
    THEN CHOOSE i \in 1..Len(s) : s[i] = sep /\ \A j \in 1..(i - 1) : s[j] # sep
    ELSE 0

RECURSIVE Split(_, _)
\* strings.Split(s, sep) for a separator of one character
Split(s, sep) ==
    LET k == IndexOf(s, sep)
    IN  IF k = 0 THEN <<s>>
        ELSE <<SubSeq(s, 1, k - 1)>> \o Split(SubSeq(s, k + 1, Len(s)), sep)

SplitNAtLast(s, sep) ==
    LET at == {i \in 1..Len(s) : s[i] = sep}
        k == IF at = {} THEN 0 ELSE CHOOSE i \in at : \A j \in at : j <= i
    IN  IF k = 0 THEN <<s>>
        ELSE <<SubSeq(s, 1, k - 1), SubSeq(s, k + 1, Len(s))>>

\* strings.SplitN(s, sep, 2): at most two parts, cut at the first separator
SplitN(s, sep) ==
    LET k == IndexOf(s, sep)
    IN  IF k = 0 THEN <<s>>
        ELSE <<SubSeq(s, 1, k - 1), SubSeq(s, k + 1, Len(s))>>

\* strings.TrimSpace
TrimSpace(t) ==
    LET keep == {i \in 1..Len(t) : t[i] \notin WhiteSpace}
    IN  IF keep = {} THEN <<>>
        ELSE SubSeq(t, CHOOSE i \in keep : \A j \in keep : i <= j,
                       CHOOSE i \in keep : \A j \in keep : i >= j)

\* textproto.CanonicalMIMEHeaderKey, applied by http.Header.Set: the first
\* letter and every letter after a hyphen in upper case, the others in lower
\* case; a key with a space in it is left as it is
CanonicalMIMEHeaderKey(key) ==
    IF \E i \in 1..Len(key) : key[i] \in WhiteSpace
    THEN key
    ELSE [i \in 1..Len(key) |->
            IF i = 1 \/ key[i - 1] = "-" THEN ToUpper(key[i]) ELSE ToLower(key[i])]

\* req.Header.Set(key, value)
HeaderSet(h, key, value) ==
    LET k == CanonicalMIMEHeaderKey(key)
    IN  [n \in (DOMAIN h) \cup {k} |-> IF n = k THEN value ELSE h[n]]

RECURSIVE ParseHeaders(_, _)
\* for _, line := range lines { parts := strings.SplitN(line, ":", 2);
\* if len(parts) == 2 { req.Header.Set(TrimSpace(parts[0]), TrimSpace(parts[1])) } }
ParseHeaders(h, lines) ==
    IF lines = <<>> THEN h
    ELSE LET parts == SplitN(Head(lines), ":")
             set == IF Len(parts) = 2
                    THEN HeaderSet(h, TrimSpace(parts[1]), TrimSpace(parts[2]))
                    ELSE h
         IN  ParseHeaders(set, Tail(lines))

XTimestamp == <<"X", "-", "T", "i", "m", "e", "s", "t", "a", "m", "p">>
ContentType == <<"C", "o", "n", "t", "e", "n", "t", "-", "T", "y", "p", "e">>
Authorization == <<"A", "u", "t", "h", "o", "r", "i", "z", "a", "t", "i", "o", "n">>

DigitChars == <<"0", "1", "2", "3", "4", "5", "6", "7", "8", "9">>

\* time.Now().Format(time.RFC3339), for the seconds 0..9 of the model
RFC3339(t) ==
    <<"T", DigitChars[t + 1]>>

\* []byte(message) for a formatted time: 'T' is 84, '0' is 48
ToBytes(text) ==
    [i \in 1..Len(text) |->
        IF text[i] = "T" THEN 84
        ELSE 47 + CHOOSE k \in 1..Len(DigitChars) : DigitChars[k] = text[i]]

\* the request has an HMAC signature
Signs(c) ==
    c.User # <<>> /\ c.Secret # <<>>

\* the headers of the request built for configuration c at time t
BuildRequest(c, t) ==
    LET timestamp == RFC3339(t)
        h0 == HeaderSet(<<>>, XTimestamp, timestamp)
        h1 == IF c.ContentType # <<>>
              THEN HeaderSet(h0, ContentType, c.ContentType) ELSE h0
        h2 == IF c.Headers # <<>>
              THEN ParseHeaders(h1, Split(c.Headers, "\n")) ELSE h1
        h3 == IF Signs(c)
              THEN HeaderSet(h2, Authorization,
                             [scheme |-> "HMAC", user |-> c.User,
                              sig |-> generateHMACSignature(c.Secret,
                                                            ToBytes(timestamp))])
              ELSE h2
    IN  [cfg |-> c, timestamp |-> timestamp, Header |-> h3,
         signed |-> IF Signs(c) THEN timestamp ELSE <<>>, built |-> TRUE]

\* lines a user may type into the header block
RawLines ==
    { <<"a", ":", "1">>,
      <<" ", "A", " ", ":", " ", "1", ":", "2", " ">>,
      <<"a", "-", "j", ":", "2", "\r">>,
      <<"j">>,
      <<>>,
      <<"X", "-", "T", "i", "m", "e", "s", "t", "a", "m", "p", ":", " ", "9">>,
      <<"x", "-", "t", "i", "m", "e", "s", "t", "a", "m", "p", ":", "9">> }

RECURSIVE Join(_)
\* the lines as one text, separated by line feeds
Join(lines) ==
    IF lines = <<>> THEN <<>>
    ELSE IF Len(lines) = 1 THEN lines[1]
    ELSE lines[1] \o <<"\n">> \o Join(Tail(lines))

HeaderBlocks ==
    {Join(ls) : ls \in UNION {[1..n -> RawLines] : n \in 0..MaxLines}}

BuildConfigs ==
    [Headers : HeaderBlocks, ContentType : {<<>>, <<"j">>},
     User : {<<>>, <<"u">>}, Secret : {<<>>, <<97>>}]

\* one request is built
BuildCall ==
    /\ ~req.built
    /\ \E c \in BuildConfigs : req' = BuildRequest(c, now)
    /\ UNCHANGED <<uiVars, chanVars, sigCalls, envVars, now, cancelled,
                   sharedVars, resultsMutex, pc, local, mainVars, sinkVars,
                   ghostVars>>

InitBuild == InitFrom({<<Config(1, 0, 1, TRUE), Env(AnyOutcome, FALSE)>>})

NextBuild ==
    BuildCall

SpecBuild == InitBuild /\ [][NextBuild]_vars

\* ------------------------------------------------- main: runBtn.OnTapped
\* The handler and the bodies handed to fyne.Do run on the main goroutine,
\* one at a time, so each of them is one step.  A disabled button delivers
\* no tap.  Texts are sequences of characters.
IsDigit(c) ==
    c \in {"0", "1", "2", "3", "4", "5", "6", "7", "8", "9"}

DigitValue(c) ==
    CASE c = "0" -> 0 [] c = "1" -> 1 [] c = "2" -> 2 [] c = "3" -> 3
      [] c = "4" -> 4 [] c = "5" -> 5 [] c = "6" -> 6 [] c = "7" -> 7
      [] c = "8" -> 8 [] c = "9" -> 9

RECURSIVE ScanDigits(_, _, _)
\* reads the digits of text from position i on
ScanDigits(text, i, acc) ==
    IF i > Len(text) \/ ~IsDigit(text[i])
    THEN [value |-> acc, next |-> i]
    ELSE ScanDigits(text, i + 1, acc * 10 + DigitValue(text[i]))

\* fmt.Sscanf(text, "%d", &v): an optional sign and the leading digits; v
\* keeps its old value when no integer can be read
Sscanf(text, old) ==
    LET signed == text # <<>> /\ text[1] \in {"-", "+"}
        first == IF signed THEN 2 ELSE 1
        scan == ScanDigits(text, first, 0)
    IN  IF scan.next = first THEN old
        ELSE IF signed /\ text[1] = "-" THEN -scan.value ELSE scan.value

\* http.NewRequest fails on a URL that does not parse
UrlParses(url) ==
    url # "http://bad host"

Urls == {"", "http://host", "http://bad host"}
CountTexts == {<<>>, <<"0">>, <<"-", "1">>, <<"x">>, <<"1">>, <<"2">>, <<"5">>}
DurationTexts == {<<>>, <<"0">>, <<"x">>, <<"1">>}
UsersTexts == {<<"0">>, <<"2">>}

\* what the user may have entered when the button is tapped (the entries
\* that the selected mode does not read are left empty; two users are
\* entered only for short count-mode runs)
Forms ==
    {f \in [url : Urls, mode : {"Por Cantidad", "Por Tiempo"},
            countText : CountTexts, durationText : DurationTexts,
            unit : {"Segundos", "Minutos"}, usersText : UsersTexts] :
        /\ f.mode = "Por Cantidad" => f.durationText = <<>> /\ f.unit = "Segundos"
        /\ f.mode = "Por Tiempo" => f.countText = <<>> /\ f.usersText = <<"0">>
        /\ f.countText = <<"5">> => f.usersText = <<"0">>}

\* durationValue of the handler
DurationValueOf(f) ==
    Sscanf(f.durationText, 0)

\* count of the handler
CountOf(f) ==
    IF f.mode = "Por Tiempo" THEN 1 ELSE Sscanf(f.countText, 1)

\* duration of the handler, in seconds
DurationOf(f) ==
    IF f.mode = "Por Tiempo"
    THEN CASE f.unit = "Minutos" -> DurationValueOf(f) * 60
           [] f.unit = "Horas" -> DurationValueOf(f) * 3600
           [] OTHER -> DurationValueOf(f)
    ELSE 0

\* users of the handler
UsersOf(f) ==
    IF Sscanf(f.usersText, 1) <= 0 THEN 1 ELSE Sscanf(f.usersText, 1)

NotPositiveNever(n) ==
    FALSE

\* if durationValue <= 0 { ... }, if count <= 0 { ... }
NotPositive(n) ==
    n <= 0

\* the mode check of the handler rejects the form
ModeRejects(f) ==
    IF f.mode = "Por Tiempo"
    THEN NotPositive(DurationValueOf(f))
    ELSE NotPositive(CountOf(f))

CancellingButtonEnabled ==
    [text |-> "Cancelando...", enabled |-> TRUE]

\* runBtn.SetText("Cancelando..."); runBtn.Disable()
CancellingButton ==
    [text |-> "Cancelando...", enabled |-> FALSE]

BusyNever ==
    FALSE

\* if isRunning { ...; return }: the test at the top of the handler
Busy ==
    isRunning

\* the run button is tapped while no run is in progress
TapRun ==
    /\ uiPanic = "none"
    /\ runBtn.enabled
    /\ ~Busy
    /\ taps < MaxTaps
    /\ taps' = taps + 1
    /\ \E f \in Forms :
          /\ form' = f
          /\ IF f.url = ""
             THEN /\ errorDialogs' = errorDialogs + 1
                  /\ UNCHANGED <<isRunning, cancelChan, runBtn, pcBg, chansMade,
                                 closeCount, cfg, cancelled, pcDone, pcProg>>
             ELSE /\ chansMade' = chansMade + 1
                  /\ cancelChan' = [id |-> chansMade + 1, closed |-> FALSE]
                  /\ closeCount' = 0
                  /\ IF ModeRejects(f)
                     THEN /\ errorDialogs' = errorDialogs + 1
                          /\ runBtn' = IdleButton
                          /\ isRunning' = FALSE
                          /\ UNCHANGED <<pcBg, cfg, cancelled, pcDone, pcProg>>
                     ELSE /\ runBtn' = [text |-> "Cancelar", enabled |-> TRUE]
                          /\ isRunning' = TRUE
                          /\ cfg' = Config(CountOf(f), DurationOf(f), UsersOf(f),
                                           UrlParses(f.url))
                          /\ cancelled' = FALSE
                          /\ pcProg' = [pcProg EXCEPT ![chansMade + 1] = "recv"]
                          /\ pcBg' = "start"
                          /\ pcDone' = "recvResults"
                          /\ UNCHANGED errorDialogs
    /\ UNCHANGED <<delivered, uiPanic, pcDefer, chans, sigCalls, req, env, now,
                   startTime, endTime, sharedVars, resultsMutex, pc, local,
                   mainVars, sinkVars, ghostVars>>

\* the run button is tapped while a run is in progress
TapCancel ==
    /\ uiPanic = "none"
    /\ runBtn.enabled
    /\ Busy
    /\ taps < MaxTaps
    /\ taps' = taps + 1
    /\ IF cancelChan.id = 0
       THEN UNCHANGED <<cancelChan, closeCount, runBtn, uiPanic, cancelled,
                        logAtCancel, pcBg>>
       ELSE IF cancelChan.closed
            THEN /\ uiPanic' = "close of closed channel"
                 /\ pcBg' = "crashed"
                 /\ UNCHANGED <<cancelChan, closeCount, runBtn, cancelled,
                                logAtCancel>>
            ELSE /\ cancelChan' = [cancelChan EXCEPT !.closed = TRUE]
                 /\ closeCount' = closeCount + 1
                 /\ cancelled' = TRUE
                 /\ logAtCancel' = results
                 /\ runBtn' = CancellingButton
                 /\ UNCHANGED <<uiPanic, pcBg>>
    /\ UNCHANGED <<isRunning, form, delivered, chansMade, errorDialogs,
                   chanVars, sigCalls, req, envVars, now, sharedVars, resultsMutex,
                   pc, local, mainVars, sinkVars, sentAfterCancel, sendCount,
                   buildFailed, progressDropped>>

\* the entry of runLoadTest: fresh log, counters, deadline
StartRun ==
    /\ startTime' = now
    /\ endTime' = IF cfg.Duration > 0 THEN now + cfg.Duration ELSE 0
    /\ results' = <<>>
    /\ successCount' = 0
    /\ totalDuration' = 0
    /\ minDur' = MinSentinel
    /\ maxDur' = 0
    /\ resultsMutex' = 0
    /\ pc' = [w \in Workers |-> "idle"]
    /\ local' = [w \in Workers |-> FreshLocal]
    /\ pcMain' = "spawn"
    /\ ret' = [results |-> <<>>, stats |-> ZeroStats]
    /\ lastProgress' = ZeroFrac
    /\ progressCalls' = 0
    /\ lastPartial' = [results |-> <<>>, stats |-> ZeroStats]
    /\ partialTotals' = <<>>
    /\ sentAfterCancel' = [w \in Workers |-> 0]
    /\ logAtCancel' = <<>>
    /\ sendCount' = 0
    /\ buildFailed' = [w \in Workers |-> FALSE]
    /\ progressDropped' = 0

\* the background goroutine starts: a single request when count == 1 and
\* duration == 0 (sent only if the request can be built, else the function
\* body ends and the deferred closes run), else runLoadTest
BgStart ==
    /\ pcBg = "start"
    /\ IF cfg.Count = 1 /\ cfg.Duration = 0
       THEN /\ IF BuildFails(cfg)
               THEN /\ pcBg' = "none"
                    /\ pcDefer' = [pcDefer EXCEPT ![CurrentRun] = "closeStats"]
                    /\ UNCHANGED <<startTime, sendCount>>
               ELSE /\ pcBg' = "single"
                    /\ startTime' = now
                    /\ sendCount' = sendCount + 1
                    /\ UNCHANGED pcDefer
            /\ UNCHANGED <<endTime, sharedVars, resultsMutex, pc, local,
                           mainVars, sinkVars, sentAfterCancel, logAtCancel,
                           buildFailed, progressDropped>>
       ELSE /\ pcBg' = "loadtest"
            /\ StartRun
            /\ UNCHANGED pcDefer
    /\ UNCHANGED <<isRunning, cancelChan, runBtn, form, delivered, uiPanic, taps,
                   chansMade, closeCount, errorDialogs, pcDone, pcProg, chans,
                   sigCalls, req, cfg, env, now, cancelled>>

\* the statistics sent for a single request of the given duration
SingleStats(d) ==
    [Avg |-> Frac(d, 1), Min |-> d, Max |-> d, P90 |-> d, P95 |-> d, P99 |-> d,
     Success |-> 1, Total |-> 1, ErrorRate |-> 0,
     RequestsPerSecond |-> Frac(1000, d), TotalDuration |-> d]

\* the single request completes with any outcome; its result and statistics
\* are ready to be sent
SingleRecv ==
    /\ pcBg = "single"
    /\ \E o \in AnyOutcome :
          ret' = [results |-> << [Seq |-> 1, Timestamp |-> startTime,
                                  Duration |-> now - startTime,
                                  Status |-> StatusOf(o)] >>,
                  stats |-> SingleStats(now - startTime)]
    /\ pcBg' = "sendFirst"
    /\ startTime' = 0
    /\ sendCount' = 0
    /\ UNCHANGED <<isRunning, cancelChan, runBtn, form, delivered, uiPanic, taps,
                   chansMade, closeCount, errorDialogs, chanVars, sigCalls, req, cfg,
                   env, endTime, now, cancelled, sharedVars, resultsMutex, pc,
                   local, pcMain, sinkVars, sentAfterCancel, logAtCancel,
                   buildFailed, progressDropped>>

\* runLoadTest has returned: its variables and those of its workers are gone
EndRun ==
    /\ startTime' = 0
    /\ endTime' = 0
    /\ results' = <<>>
    /\ successCount' = 0
    /\ totalDuration' = 0
    /\ minDur' = MinSentinel
    /\ maxDur' = 0
    /\ pc' = [w \in Workers |-> "idle"]
    /\ local' = [w \in Workers |-> FreshLocal]
    /\ pcMain' = "idle"
    /\ ret' = [results |-> <<>>, stats |-> ZeroStats]
    /\ lastProgress' = ZeroFrac
    /\ progressCalls' = 0
    /\ lastPartial' = [results |-> <<>>, stats |-> ZeroStats]
    /\ partialTotals' = <<>>
    /\ sentAfterCancel' = [w \in Workers |-> 0]
    /\ logAtCancel' = <<>>
    /\ sendCount' = 0
    /\ buildFailed' = [w \in Workers |-> FALSE]
    /\ progressDropped' = 0

\* resultChan <- results; statsChan <- stats
SendOrder ==
    <<"resultChan", "statsChan">>

\* results := <-resultChan; stats := <-statsChan
RecvOrder ==
    <<"resultChan", "statsChan">>

\* the background goroutine is at its first send
AtFirstSend ==
    \/ pcBg = "sendFirst"
    \/ pcBg = "loadtest" /\ pcMain = "done"

\* the channel the completion goroutine is receiving from, if any
RecvChan ==
    CASE pcDone = "recvResults" -> RecvOrder[1]
      [] pcDone = "recvStats" -> RecvOrder[2]
      [] OTHER -> "none"

\* the completion goroutine has received v from channel ch
Received(ch, v) ==
    /\ delivered' = IF ch = "resultChan"
                    THEN [delivered EXCEPT !.results = v]
                    ELSE [delivered EXCEPT !.stats = v]
    /\ pcDone' = IF pcDone = "recvResults" THEN "recvStats" ELSE "ready"

\* the value the background goroutine sends on channel ch
SentValue(ch) ==
    IF ch = "resultChan" THEN ret.results ELSE ret.stats

\* the first send of the background goroutine meets the matching receive of
\* the completion goroutine (the channels are unbuffered)
BgSendFirst ==
    /\ AtFirstSend
    /\ RecvChan = SendOrder[1]
    /\ Received(SendOrder[1], SentValue(SendOrder[1]))
    /\ chans' = [chans EXCEPT ![CurrentRun][SendOrder[1]].sent = @ + 1]
    /\ pcBg' = "sendSecond"
    /\ UNCHANGED <<isRunning, cancelChan, runBtn, form, uiPanic, taps,
                   chansMade, closeCount, errorDialogs, pcProg, pcDefer,
                   sigCalls, req, envVars, now, cancelled, sharedVars, resultsMutex,
                   pc, local, mainVars, sinkVars, ghostVars>>

\* the second send meets its receive; the function body ends, the deferred
\* closes are left to run
BgSendSecond ==
    /\ pcBg = "sendSecond"
    /\ RecvChan = SendOrder[2]
    /\ Received(SendOrder[2], SentValue(SendOrder[2]))
    /\ chans' = [chans EXCEPT ![CurrentRun][SendOrder[2]].sent = @ + 1]
    /\ pcBg' = "none"
    /\ pcDefer' = [pcDefer EXCEPT ![CurrentRun] = "closeStats"]
    /\ EndRun
    /\ UNCHANGED <<isRunning, cancelChan, runBtn, form, uiPanic, taps,
                   chansMade, closeCount, errorDialogs, pcProg, sigCalls, req, cfg,
                   env, now, cancelled, resultsMutex>>

\* defer close(progressChan); defer close(resultChan); defer close(statsChan):
\* the deferred calls of the background goroutine of run r, last one first
BgClose(r) ==
    /\ pcDefer[r] \in {"closeStats", "closeResult", "closeProgress"}
    /\ chans' = [chans EXCEPT ![r][DeferredChan(pcDefer[r])].closed = TRUE]
    /\ pcDefer' = [pcDefer EXCEPT ![r] = AfterClose(pcDefer[r])]
    /\ UNCHANGED <<uiVars, pcDone, pcProg, sigCalls, req, envVars, now, cancelled,
                   sharedVars, resultsMutex, pc, local, mainVars, sinkVars,
                   ghostVars>>

\* a receive of the completion goroutine from a closed channel gives the zero
\* value: a nil list, a zero BenchmarkStats
DoneRecvClosed ==
    /\ RecvChan # "none"
    /\ chans[CurrentRun][RecvChan].closed
    /\ Received(RecvChan, IF RecvChan = "resultChan" THEN <<>> ELSE ZeroStats)
    /\ UNCHANGED <<isRunning, cancelChan, runBtn, form, pcBg, uiPanic, taps,
                   chansMade, closeCount, errorDialogs, pcProg, pcDefer, chans,
                   sigCalls, req, envVars, now, cancelled, sharedVars, resultsMutex,
                   pc, local, mainVars, sinkVars, ghostVars>>

\* for progress := range progressChan { fyne.Do(...) }: the consumer of run r
\* has handed the value to fyne.Do and is back at the receive
ProgReady(r) ==
    /\ pcProg[r] = "busy"
    /\ pcProg' = [pcProg EXCEPT ![r] = "recv"]
    /\ UNCHANGED <<uiVars, pcDone, pcDefer, chans, sigCalls, req, envVars, now,
                   cancelled, sharedVars, resultsMutex, pc, local, mainVars,
                   sinkVars, ghostVars>>

\* the range loop of the consumer of run r ends when progressChan is closed
ProgExit(r) ==
    /\ pcProg[r] = "recv"
    /\ chans[r].progressChan.closed
    /\ pcProg' = [pcProg EXCEPT ![r] = "exited"]
    /\ UNCHANGED <<uiVars, pcDone, pcDefer, chans, sigCalls, req, envVars, now,
                   cancelled, sharedVars, resultsMutex, pc, local, mainVars,
                   sinkVars, ghostVars>>

\* the body handed to fyne.Do by the completion goroutine, which then ends
\* (its results and stats are gone)
Complete ==
    /\ pcDone = "ready"
    /\ uiPanic = "none"
    /\ pcDone' = "none"
    /\ runBtn' = IdleButton
    /\ isRunning' = FALSE
    /\ IF cfg.Count > 1 \/ cfg.Duration > 0 \/ delivered.results # <<>>
       THEN UNCHANGED <<pcBg, uiPanic>>
       ELSE pcBg' = "crashed" /\ uiPanic' = "index out of range"
    /\ delivered' = [results |-> <<>>, stats |-> ZeroStats]
    /\ UNCHANGED <<cancelChan, form, taps, chansMade, closeCount,
                   errorDialogs, pcProg, pcDefer, chans, sigCalls, req, envVars, now,
                   cancelled, sharedVars, resultsMutex, pc, local, mainVars,
                   sinkVars, ghostVars>>

\* main after the window has been built; no run has been started (the
\* target answers every request of a load test with 200)
InitMain ==
    /\ cfg = Config(1, 0, 1, TRUE)
    /\ env = Env({Response(200)}, FALSE)
    /\ now = 0
    /\ startTime = 0
    /\ endTime = 0
    /\ cancelled = FALSE
    /\ results = <<>>
    /\ successCount = 0
    /\ totalDuration = 0
    /\ minDur = MinSentinel
    /\ maxDur = 0
    /\ resultsMutex = 0
    /\ pc = [w \in Workers |-> "idle"]
    /\ local = [w \in Workers |-> FreshLocal]
    /\ pcMain = "idle"
    /\ ret = [results |-> <<>>, stats |-> ZeroStats]
    /\ lastProgress = ZeroFrac
    /\ progressCalls = 0
    /\ lastPartial = [results |-> <<>>, stats |-> ZeroStats]
    /\ partialTotals = <<>>
    /\ sentAfterCancel = [w \in Workers |-> 0]
    /\ logAtCancel = <<>>
    /\ sendCount = 0
    /\ buildFailed = [w \in Workers |-> FALSE]
    /\ progressDropped = 0
    /\ InitCaller

NextMain ==
    \/ TapRun
    \/ TapCancel
    \/ BgStart
    \/ SingleRecv
    \/ Spawn
    \/ \E w \in Workers : WorkerStep(w)
    \/ WaitAndReturn
    \/ BgSendFirst
    \/ BgSendSecond
    \/ \E r \in RunIds : BgClose(r)
    \/ DoneRecvClosed
    \/ \E r \in RunIds : ProgReady(r)
    \/ \E r \in RunIds : ProgExit(r)
    \/ Complete

SpecMain == InitMain /\ [][NextMain]_vars

\* main with one tap left: the earlier taps were made with an empty URL and
\* were answered by the error dialog
InitLastTap ==
    /\ cfg = Config(1, 0, 1, TRUE)
    /\ env = Env({Response(200)}, FALSE)
    /\ now = 0
    /\ startTime = 0
    /\ endTime = 0
    /\ cancelled = FALSE
    /\ results = <<>>
    /\ successCount = 0
    /\ totalDuration = 0
    /\ minDur = MinSentinel
    /\ maxDur = 0
    /\ resultsMutex = 0
    /\ pc = [w \in Workers |-> "idle"]
    /\ local = [w \in Workers |-> FreshLocal]
    /\ pcMain = "idle"
    /\ ret = [results |-> <<>>, stats |-> ZeroStats]
    /\ lastProgress = ZeroFrac
    /\ progressCalls = 0
    /\ lastPartial = [results |-> <<>>, stats |-> ZeroStats]
    /\ partialTotals = <<>>
    /\ sentAfterCancel = [w \in Workers |-> 0]
    /\ logAtCancel = <<>>
    /\ sendCount = 0
    /\ buildFailed = [w \in Workers |-> FALSE]
    /\ progressDropped = 0
    /\ isRunning = FALSE
    /\ cancelChan = NilChan
    /\ runBtn = IdleButton
    /\ form \in {f \in Forms : f.url = ""}
    /\ pcBg = "none"
    /\ delivered = [results |-> <<>>, stats |-> ZeroStats]
    /\ uiPanic = "none"
    /\ taps = MaxTaps - 1
    /\ chansMade = 0
    /\ closeCount = 0
    /\ errorDialogs = MaxTaps - 1
    /\ pcDone = "none"
    /\ pcProg = [r \in RunIds |-> "none"]
    /\ pcDefer = [r \in RunIds |-> "none"]
    /\ chans = [r \in RunIds |-> FreshChans]
    /\ sigCalls = <<>>
    /\ req = NoRequest

\* the clock advances while the request or the load test of a run is going on
RunTick ==
    /\ pcBg \in {"single", "loadtest"}
    /\ Tick

\* the last tap and the run it starts, which the user never cancels
NextLastTap ==
    \/ RunTick
    \/ TapRun
    \/ BgStart
    \/ SingleRecv
    \/ Spawn
    \/ \E w \in Workers : WorkerStep(w)
    \/ WaitAndReturn
    \/ BgSendFirst
    \/ BgSendSecond
    \/ \E r \in RunIds : BgClose(r)
    \/ DoneRecvClosed
    \/ \E r \in RunIds : ProgReady(r)
    \/ \E r \in RunIds : ProgExit(r)
    \/ Complete

\* Time passes, every goroutine that can take a step eventually takes one, a
\* request in flight ends (the client has a timeout) and the main loop runs
\* what fyne.Do has queued; nothing is assumed of the user.
FairSpecMain ==
    /\ InitLastTap
    /\ [][NextLastTap]_vars
    /\ WF_vars(RunTick)
    /\ WF_vars(BgStart)
    /\ WF_vars(SingleRecv)
    /\ WF_vars(Spawn)
    /\ \A w \in Workers : WF_vars(WorkerStep(w))
    /\ WF_vars(WaitAndReturn)
    /\ WF_vars(BgSendFirst)
    /\ WF_vars(BgSendSecond)
    /\ \A r \in RunIds : WF_vars(BgClose(r))
    /\ WF_vars(DoneRecvClosed)
    /\ \A r \in RunIds : WF_vars(ProgReady(r))
    /\ \A r \in RunIds : WF_vars(ProgExit(r))
    /\ WF_vars(Complete)

\* the final statistics pass on its own
NextStats ==
    WaitAndReturn

SpecStats == InitStats /\ [][NextStats]_vars

\* Every goroutine that can take a step eventually takes one (the Go
\* scheduler is fair to runnable goroutines); nothing is assumed of the
\* clock or of the caller.
FairSpec ==
    /\ InitFair
    /\ [][Next]_vars
    /\ WF_vars(Spawn)
    /\ WF_vars(WaitAndReturn)
    /\ \A w \in Workers : WF_vars(WorkerStep(w))

\* ------------------------------------------------------------- properties
returned == pcMain = "done"

countMode == ~useDuration

IsPrefix(s, t) ==
    /\ Len(s) <= Len(t)
    /\ \A i \in 1..Len(s) : s[i] = t[i]

\* indices of the entries of a log whose status is in [200,400)
SuccessIndices(log) ==
    {i \in 1..Len(log) : log[i].Status >= 200 /\ log[i].Status < 400}

RECURSIVE SumDurations(_)
SumDurations(log) ==
    IF log = <<>> THEN 0 ELSE log[1].Duration + SumDurations(Tail(log))

MinOfLog(log) ==
    CHOOSE m \in {log[i].Duration : i \in 1..Len(log)} :
        \A i \in 1..Len(log) : m <= log[i].Duration

MaxOfLog(log) ==
    CHOOSE m \in {log[i].Duration : i \in 1..Len(log)} :
        \A i \in 1..Len(log) : m >= log[i].Duration

\* C1: in count mode with Count = N > 0, no cancellation and every attempt
\* completing, runLoadTest returns with stats.Total = len(results) = N exactly.
C1_CountExact ==
    (returned /\ countMode /\ cfg.Count > 0 /\ ~cancelled)
        => /\ ret.stats.Total = cfg.Count
           /\ Len(ret.results) = cfg.Count

\* C2 (as stated): no request is sent once the cancellation signal is raised.
C2_NoSendAfterCancel ==
    \A w \in Workers : sentAfterCancel[w] = 0

\* C2 (amended): once the signal is raised a worker sends at most one more
\* request, the one of the iteration whose cancellation check came before the
\* signal; after that request it never passes the cancellation check again.
C2_AtMostOneSendAfterCancel ==
    \A w \in Workers :
        /\ sentAfterCancel[w] <= 1
        /\ sentAfterCancel[w] = 1 => pc[w] \notin {"stop", "headroom", "send"}

C2_Witness ==
    \E w \in Workers : sentAfterCancel[w] = 1 /\ pc[w] = "done"

\* C3: if cancellation is signalled during a run then, under fair scheduling,
\* runLoadTest eventually returns, and the returned log starts with every
\* result that had been appended before the signal.
C3_CancelReturns ==
    cancelled ~> (returned /\ IsPrefix(logAtCancel, ret.results))

C3_Witness ==
    /\ returned
    /\ cancelled
    /\ Len(logAtCancel) > 0
    /\ Len(ret.results) > Len(logAtCancel)

\* C4 (as stated): in duration mode without cancellation runLoadTest does
\* not return before its deadline.
C4_NotBeforeDeadline ==
    (returned /\ useDuration /\ ~cancelled) => now - startTime >= cfg.Duration

\* C4 (amended): in duration mode without cancellation runLoadTest returns
\* only once less than one attempt timeout remains before the deadline: the
\* time elapsed at return is greater than Duration - 10 seconds.
C4_ReturnsWithinTimeoutOfDeadline ==
    (returned /\ useDuration /\ ~cancelled)
        => (now - startTime) + Timeout > cfg.Duration

C4_Witness ==
    /\ returned
    /\ useDuration
    /\ ~cancelled
    /\ Len(ret.results) > 0
    /\ now < endTime

C6_TotalAndSuccess ==
    returned => /\ ret.stats.Total = Len(ret.results)
                /\ 0 <= ret.stats.Success
                /\ ret.stats.Success <= ret.stats.Total

C6_Witness ==
    /\ returned
    /\ ret.stats.Success > 0
    /\ ret.stats.Success < ret.stats.Total

\* C7: in the returned stats Success is the number of returned results with
\* status in [200,400), and for Total > 0 ErrorRate is
\* ((Total - Success) * 100) div Total, a value in 0..100.
C7_SuccessClassification ==
    returned =>
        /\ ret.stats.Success = Cardinality(SuccessIndices(ret.results))
        /\ ret.stats.Total > 0 =>
              /\ ret.stats.ErrorRate =
                    ((ret.stats.Total - ret.stats.Success) * 100) \div ret.stats.Total
              /\ ret.stats.ErrorRate \in 0..100

C7_Witness ==
    /\ returned
    /\ \E i \in 1..Len(ret.results) : ret.results[i].Status = 400
    /\ \E i \in 1..Len(ret.results) : ret.results[i].Status = 200
    /\ ret.stats.ErrorRate = 50

\* C8: every partial snapshot handed to the partial-update sink satisfies
\* Success <= Total, hence an ErrorRate in 0..100.
C8_PartialSuccessWithinTotal ==
    /\ lastPartial.stats.Success <= lastPartial.stats.Total
    /\ lastPartial.stats.ErrorRate \in 0..100

\* C9: for every invocation of the partial-update sink, partialStats is the
\* summary of exactly the copy handed over with it: Success, TotalDuration,
\* Min and Max are those of the entries of the copy.
C9_PartialIsSummaryOfCopy ==
    partialTotals # <<>> =>
        /\ lastPartial.stats.Success = Cardinality(SuccessIndices(lastPartial.results))
        /\ lastPartial.stats.TotalDuration = SumDurations(lastPartial.results)
        /\ lastPartial.stats.Min = MinOfLog(lastPartial.results)
        /\ lastPartial.stats.Max = MaxOfLog(lastPartial.results)

\* positions whose next step reads or writes the log or a running counter
\* outside a single-step Lock/Unlock pair
AccessPositions ==
    {"accMin", "accMax", "psSuccess", "psMin", "psMax", "psTotal", "psCall"}

\* C10: every read and write of the log and of the running counters by a
\* worker happens while that worker holds resultsMutex, and no worker reads a
\* counter while another worker holds the mutex to write it.
C10_AccessUnderLock ==
    \A w \in Workers :
        pc[w] \in AccessPositions => resultsMutex = w

\* positions between the unlock of the long critical section and the calls
\* of the sinks ("progress" calls the progress sink, "psCall" the
\* partial-update sink)
CallbackPositions ==
    {"progress", "psSuccess", "psMin", "psMax", "psTotal", "psCall"}

\* C11: no worker holds resultsMutex while it invokes the progress sink or
\* the partial-update sink; the copy it hands over was taken under the lock
\* (it is the log as of its own append) and the lock is released before.
C11_NoLockDuringCallbacks ==
    \A w \in Workers :
        pc[w] \in CallbackPositions =>
            /\ resultsMutex # w
            /\ Len(local[w].resultsCopy) = local[w].currentTotal
            /\ IsPrefix(local[w].resultsCopy, results)

C11_Witness ==
    \E w \in Workers : \E v \in Workers :
        /\ v # w
        /\ pc[w] = "psCall"
        /\ resultsMutex = v

\* C12: in every reachable state the i-th entry of the log has Seq = i.
C12_SeqIsPosition ==
    \A i \in 1..Len(results) : results[i].Seq = i

C12_Witness ==
    /\ Len(results) >= 2
    /\ results[1].Timestamp > results[2].Timestamp

\* C13: every step leaves the log unchanged or appends exactly one entry at
\* its end; appended entries are never modified, reordered or removed.
C13_AppendOnly ==
    [][\/ results' = results
       \/ /\ Len(results') = Len(results) + 1
          /\ SubSeq(results', 1, Len(results)) = results]_vars

C13_Witness ==
    /\ cancelled
    /\ Len(logAtCancel) > 0
    /\ Len(results) > Len(logAtCancel)

\* positive multiples of 5 up to n
MultiplesOfFive(n) ==
    {k \in 1..n : k % 5 = 0}

\* C14: the partial-update sink is invoked only for log sizes that are
\* positive multiples of 5, at most once for each, and by the time the run
\* returns exactly once for each such size reached; the slice it receives is
\* the first Total entries of the log, whatever is appended later.
C14_SinkEveryFifth ==
    /\ \A i \in 1..Len(partialTotals) :
          partialTotals[i] \in MultiplesOfFive(Len(results))
    /\ \A i \in 1..Len(partialTotals) : \A j \in 1..Len(partialTotals) :
          i # j => partialTotals[i] # partialTotals[j]
    /\ returned =>
          {partialTotals[i] : i \in 1..Len(partialTotals)} = MultiplesOfFive(Len(results))
    /\ partialTotals # <<>> =>
          /\ Len(lastPartial.results) = lastPartial.stats.Total
          /\ lastPartial.results = SubSeq(results, 1, lastPartial.stats.Total)

C14_Witness ==
    /\ returned
    /\ partialTotals = <<5>>
    /\ Len(results) = 6
    /\ Len(lastPartial.results) = 5

\* C15: successive invocations of the partial-update sink carry strictly
\* increasing Total values.
C15_PartialTotalsIncrease ==
    \A i \in 1..(Len(partialTotals) - 1) : partialTotals[i] < partialTotals[i + 1]

\* C16: every value passed to the progress sink lies in [0,1].
C16_ProgressInUnitInterval ==
    /\ 0 <= lastProgress.num
    /\ lastProgress.num <= lastProgress.den

\* C17: runLoadTest starts exactly max(1, ConcurrentUsers) workers and
\* returns only after every one of them has exited; after the return the log
\* does not change and no sink is invoked.
C17_WorkersStartedAndJoined ==
    /\ [](pcMain # "spawn" =>
            Cardinality({w \in Workers : pc[w] # "idle"})
                = IF cfg.ConcurrentUsers < 1 THEN 1 ELSE cfg.ConcurrentUsers)
    /\ [](returned => \A w \in Workers : pc[w] \in {"idle", "done"})
    /\ [][returned => results' = results /\ sinkVars' = sinkVars]_vars

C17_Witness ==
    /\ returned
    /\ cfg.ConcurrentUsers = 0
    /\ pc = [w \in Workers |-> IF w = 1 THEN "done" ELSE "idle"]
    /\ Len(ret.results) = 2

\* C18: in duration mode Count plays no role in stopping (an uncancelled
\* worker exits only for lack of time); in count mode no worker starts an
\* attempt once the log size has reached Count.
C18_StopRuleByMode ==
    \A w \in Workers :
        /\ (useDuration /\ ~cancelled /\ pc[w] = "done") => now + Timeout > endTime
        /\ (countMode /\ cfg.Valid /\ pc[w] = "send") => Len(results) < cfg.Count

\* positions of a worker whose request has been sent and is not yet recorded
AttemptPositions ==
    {"inflight", "succ", "rec", "accMin", "accMax"}

\* C19: every request sent yields exactly one appended result, whose status
\* is 0 on a transport error and the HTTP status otherwise, and is never
\* retried; an iteration that stops before sending appends nothing, changes
\* no counter and calls no sink.
C19_OneResultPerAttempt ==
    /\ [](sendCount = Len(results)
                        + Cardinality({w \in Workers : pc[w] \in AttemptPositions}))
    /\ [][/\ results' # results =>
              \E w \in Workers :
                  /\ pc[w] = "accMax"
                  /\ pc'[w] = "progress"
                  /\ results' = Append(results,
                        [Seq |-> Len(results) + 1,
                         Timestamp |-> local[w].start,
                         Duration |-> local[w].duration,
                         Status |-> IF local[w].outcome.err THEN 0
                                    ELSE local[w].outcome.code])
          /\ \A w \in Workers :
                (pc[w] \in {"top", "stop", "headroom"} /\ pc'[w] = "done")
                    => /\ sharedVars' = sharedVars
                       /\ sinkVars' = sinkVars
                       /\ sendCount' = sendCount]_vars

C19_Witness ==
    /\ returned
    /\ sendCount = 2
    /\ \E i \in 1..Len(ret.results) : ret.results[i].Status = 0
    /\ \E i \in 1..Len(ret.results) : ret.results[i].Status = 400

\* why a worker may leave its loop: the signal, or the stopping rule
ExitReason(w) ==
    \/ pc[w] = "top" /\ cancelled
    \/ pc[w] = "stop" /\ useDuration /\ now > endTime
    \/ pc[w] = "stop" /\ countMode /\ Len(results) >= cfg.Count
    \/ pc[w] = "headroom" /\ now + Timeout > endTime

\* C20: a failed attempt never ends the run: a worker exits only because of
\* cancellation or the stopping rule, and after recording any result it goes
\* on to its callbacks and its next iteration.
C20_FailureDoesNotStopWorker ==
    [][\A w \in Workers :
          /\ (pc[w] # "done" /\ pc'[w] = "done") => ExitReason(w)
          /\ (pc[w] \in AttemptPositions /\ pc'[w] # pc[w])
                => pc'[w] \in AttemptPositions \cup {"progress"}]_vars

C20_Witness ==
    /\ cfg.ConcurrentUsers = 0
    /\ Len(results) = 2
    /\ results[1].Status = 0
    /\ results[2].Status = 400

\* C22: a run that records no attempt returns an empty log and statistics
\* in which every field is zero: Total, Success, Min, Max, Avg, ErrorRate,
\* P90, P95, P99 (and TotalDuration, RequestsPerSecond); the 999999 sentinel
\* of the minimum is not exposed.
C22_EmptyRunZeroStats ==
    (returned /\ sendCount = 0)
        => /\ ret.results = <<>>
           /\ ret.stats = ZeroStats
           /\ ret.stats.Min # MinSentinel

C22_Witness ==
    /\ returned
    /\ cancelled
    /\ cfg.Count > 0
    /\ cfg.Valid
    /\ sendCount = 0
    /\ buildFailed = [w \in Workers |-> FALSE]
    /\ progressDropped = 0
    /\ minDur = MinSentinel

\* C25: for every returned run with Total > 0 the statistics built from the
\* running accumulators equal a fresh pass over the returned log:
\* TotalDuration is the sum of the durations, Min and Max their minimum and
\* maximum, Avg = TotalDuration / Total with Min <= Avg <= Max, and Success
\* the number of entries with status in [200,400).
C25_AccumulatorsMatchFreshPass ==
    (returned /\ ret.stats.Total > 0)
        => /\ ret.stats.TotalDuration = SumDurations(ret.results)
           /\ ret.stats.Min = MinOfLog(ret.results)
           /\ ret.stats.Max = MaxOfLog(ret.results)
           /\ ret.stats.Avg = Frac(SumDurations(ret.results), Len(ret.results))
           /\ ret.stats.Min * ret.stats.Avg.den <= ret.stats.Avg.num
           /\ ret.stats.Avg.num <= ret.stats.Max * ret.stats.Avg.den
           /\ ret.stats.Success = Cardinality(SuccessIndices(ret.results))

C25_Witness ==
    /\ returned
    /\ Len(ret.results) = 2
    /\ ret.results[1].Duration > ret.results[2].Duration
    /\ ret.results[1].Status = 400
    /\ ret.results[2].Status = 200
    /\ ret.stats.Min < ret.stats.Max

\* C28: in count mode with Count = N > 0 and K = max(1, ConcurrentUsers)
\* workers the log never grows beyond N + K - 1 entries; without
\* cancellation a worker exits only when the log holds at least N entries,
\* and the returned Total satisfies N <= Total <= N + K - 1.
C28_CountOvershootBounded ==
    (countMode /\ cfg.Count > 0)
        => /\ Len(results) <= cfg.Count + Users(cfg) - 1
           /\ \A w \in Workers :
                 (pc[w] = "done" /\ ~cancelled) => Len(results) >= cfg.Count
           /\ (returned /\ ~cancelled)
                 => /\ cfg.Count <= ret.stats.Total
                    /\ ret.stats.Total <= cfg.Count + Users(cfg) - 1

C28_Witness ==
    /\ returned
    /\ ~cancelled
    /\ cfg.Count = 5
    /\ Users(cfg) = 2
    /\ ret.stats.Total = 6

\* Duration is positive and shorter than the timeout of one request
shortDuration ==
    cfg.Duration > 0 /\ cfg.Duration < Timeout

\* C29: in duration mode with 0 < Duration < 10 seconds no attempt is ever
\* started, and under fair scheduling runLoadTest returns an empty log with
\* Total = 0 whether or not the clock reaches the deadline.
C29_ShortDurationNoAttempt ==
    /\ [](shortDuration => sendCount = 0 /\ results = <<>>)
    /\ shortDuration ~> (returned /\ ret.results = <<>> /\ ret.stats.Total = 0)

C29_Witness ==
    /\ shortDuration
    /\ returned
    /\ ~cancelled
    /\ now < endTime
    /\ ret.stats.Total = 0

\* a worker that has passed the cancellation check of its iteration and has
\* not yet recorded the result of that iteration
Committed(w) ==
    pc[w] \in {"stop", "headroom", "send"} \cup AttemptPositions

\* C30: after the cancellation signal each worker records at most one
\* further result, that of the iteration it was committed to: the results
\* appended since the signal plus the workers still committed never exceed
\* max(1, ConcurrentUsers).
C30_AtMostOneResultPerWorkerAfterCancel ==
    cancelled =>
        (Len(results) - Len(logAtCancel))
            + Cardinality({w \in Workers : Committed(w)}) <= Users(cfg)

C30_Witness ==
    /\ cancelled
    /\ returned
    /\ Users(cfg) = 2
    /\ Len(ret.results) - Len(logAtCancel) = 2

\* C23: for every non-empty returned log the final statistics satisfy
\* Min <= P90 <= P95 <= P99 <= Max.
C23_PercentilesOrdered ==
    (returned /\ Len(ret.results) > 0)
        => /\ ret.stats.Min <= ret.stats.P90
           /\ ret.stats.P90 <= ret.stats.P95
           /\ ret.stats.P95 <= ret.stats.P99
           /\ ret.stats.P99 <= ret.stats.Max

C23_Witness ==
    /\ returned
    /\ ret.stats.Min < ret.stats.P90
    /\ ret.stats.P90 < ret.stats.P95
    /\ ret.stats.P95 < ret.stats.P99
    /\ ret.stats.P99 = ret.stats.Max

\* number of positions of d that hold v
Occurrences(d, v) ==
    Cardinality({i \in 1..Len(d) : d[i] = v})

IsAscending(d) ==
    \A i \in 1..(Len(d) - 1) : d[i] <= d[i + 1]

IsPermutationOf(d, e) ==
    /\ Len(d) = Len(e)
    /\ \A i \in 1..Len(e) : Occurrences(d, e[i]) = Occurrences(e, e[i])

\* min(floor(p * n), n - 1) for p = pct / 100
NearestRank(pct, n) ==
    IF (pct * n) \div 100 < n - 1 THEN (pct * n) \div 100 ELSE n - 1

\* C24: for a returned log of N >= 1 results the exchange loop yields an
\* ascending permutation of the durations, and P90, P95, P99 are its
\* elements at the 0-based index min(floor(p*N), N-1), which is in 0..N-1.
C24_NearestRankOfSorted ==
    (returned /\ Len(ret.results) > 0)
        => LET d == Durations(ret.results)
               n == Len(d)
               sorted == SortDurations(d)
           IN  /\ IsAscending(sorted)
               /\ IsPermutationOf(sorted, d)
               /\ \A pct \in {90, 95, 99} : NearestRank(pct, n) \in 0..(n - 1)
               /\ ret.stats.P90 = sorted[NearestRank(90, n) + 1]
               /\ ret.stats.P95 = sorted[NearestRank(95, n) + 1]
               /\ ret.stats.P99 = sorted[NearestRank(99, n) + 1]

C24_Witness ==
    /\ returned
    /\ Len(ret.results) = 20
    /\ ret.results[1].Duration > ret.results[20].Duration
    /\ ret.stats.P90 < ret.stats.P95
    /\ ret.stats.P95 = ret.stats.P99

\* C27 (as stated): two calls of generateHMACSignature with the same
\* (secret, message) return the same token, and calls with different secrets
\* and the same message return different tokens.
C27_DistinctSecretsDistinctTokens ==
    \A i \in 1..Len(sigCalls) : \A j \in 1..Len(sigCalls) :
        /\ (sigCalls[i].secret = sigCalls[j].secret
                /\ sigCalls[i].message = sigCalls[j].message)
              => sigCalls[i].token = sigCalls[j].token
        /\ (sigCalls[i].secret # sigCalls[j].secret
                /\ sigCalls[i].message = sigCalls[j].message)
              => sigCalls[i].token # sigCalls[j].token

RECURSIVE WithoutTrailingZeros(_)
\* a byte string without its trailing zero bytes
WithoutTrailingZeros(bytes) ==
    IF bytes = <<>> \/ bytes[Len(bytes)] # 0 THEN bytes
    ELSE WithoutTrailingZeros(SubSeq(bytes, 1, Len(bytes) - 1))

\* C27 (amended): generateHMACSignature is deterministic and changes no
\* state; for the same message, two secrets of at most 64 bytes that differ
\* otherwise than by trailing zero bytes give different tokens (SHA-256
\* taken as collision-free), and two secrets that differ only by trailing
\* zero bytes give the same token.
C27_TokenDeterminedByPaddedKey ==
    /\ [](\A i \in 1..Len(sigCalls) : \A j \in 1..Len(sigCalls) :
            sigCalls[i].message = sigCalls[j].message
              => (sigCalls[i].token = sigCalls[j].token
                    <=> WithoutTrailingZeros(sigCalls[i].secret)
                          = WithoutTrailingZeros(sigCalls[j].secret)))
    /\ [][sigCalls' # sigCalls
            => /\ SubSeq(sigCalls', 1, Len(sigCalls)) = sigCalls
               /\ UNCHANGED <<uiVars, envVars, now, cancelled, sharedVars,
                              resultsMutex, pc, local, mainVars, sinkVars,
                              ghostVars>>]_vars

C27_Witness ==
    /\ Len(sigCalls) = 2
    /\ sigCalls[1].message = sigCalls[2].message
    /\ sigCalls[1].secret = <<97>>
    /\ sigCalls[2].secret = <<98, 0>>
    /\ sigCalls[1].token # sigCalls[2].token

\* a configuration error: empty URL, non-positive duration in duration
\* mode, non-positive count in count mode
ConfigError(f) ==
    \/ f.url = ""
    \/ f.mode = "Por Tiempo" /\ Sscanf(f.durationText, 0) <= 0
    \/ f.mode # "Por Tiempo" /\ Sscanf(f.countText, 1) <= 0

\* C21: a tap with a configuration error is answered by an error dialog in
\* the handler itself: no background goroutine and no worker is started, no
\* request is sent, and the caller is left not running; whenever the caller
\* is not running no goroutine of a run is active.
C21_ConfigErrorStartsNothing ==
    /\ [][(taps' = taps + 1 /\ ~isRunning /\ ConfigError(form'))
            => /\ isRunning' = FALSE
               /\ errorDialogs' = errorDialogs + 1
               /\ runBtn' = IdleButton
               /\ UNCHANGED <<pcBg, pc, pcMain, sendCount, results, cfg>>]_vars
    /\ [](~isRunning => /\ pcBg \in {"none", "crashed"}
                        /\ \A w \in Workers : pc[w] \in {"idle", "done"})

C21_Witness ==
    /\ taps = 1
    /\ form.url = "http://host"
    /\ form.mode = "Por Cantidad"
    /\ form.countText = <<"-", "1">>
    /\ errorDialogs = 1
    /\ ~isRunning
    /\ pcBg = "none"
    /\ sendCount = 0

\* C26: cancelChan is closed at most once per run, so closing a closed
\* channel is unreachable, and every new run gets a fresh, open channel.
C26_CancelChanClosedOnce ==
    /\ [](/\ closeCount <= 1
           /\ cancelChan.closed <=> closeCount = 1
           /\ uiPanic # "close of closed channel")
    /\ [][(~isRunning /\ isRunning')
            => /\ cancelChan'.id = chansMade + 1
               /\ chansMade' = chansMade + 1
               /\ ~cancelChan'.closed
               /\ closeCount' = 0]_vars

C26_Witness ==
    /\ isRunning
    /\ cancelChan = [id |-> 2, closed |-> TRUE]
    /\ closeCount = 1
    /\ ~runBtn.enabled
    /\ taps = 3


\* ------------------------------------------------------------ claims C31..C40
\* C31: in count mode with Count > 0 and no cancellation, runLoadTest
\* eventually returns under fair scheduling, whatever the configuration, also
\* when the construction of the request fails in every iteration.
C31_CountRunReturns ==
    (countMode /\ cfg.Count > 0) ~> (returned \/ cancelled)

\* C32: an iteration whose request construction fails leaves the log,
\* successCount, totalDuration, minDur and maxDur unchanged, calls neither
\* sink, sends nothing, and takes the worker to its next iteration.
C32_FailedBuildChangesNothing ==
    [][\A w \in Workers :
          (pc[w] = "send" /\ ~cfg.Valid /\ pc'[w] # pc[w])
              => /\ pc'[w] = "top"
                 /\ local'[w] = FreshLocal
                 /\ UNCHANGED <<sharedVars, sinkVars, sendCount, resultsMutex>>]_vars

C32_Witness ==
    /\ ~cfg.Valid
    /\ \E w \in Workers : buildFailed[w] /\ pc[w] = "top"
    /\ results = <<>>
    /\ progressCalls = 0

\* the completion goroutine holds the result and the statistics of a single
\* request (count == 1 and duration == 0)
SingleDelivered ==
    /\ pcDone = "ready"
    /\ cfg.Count = 1
    /\ cfg.Duration = 0

\* C33: in the single-request path the statistics sent with the result
\* classify it by its status: Success = 1 and ErrorRate = 0 for a status in
\* [200,400), Success = 0 and ErrorRate = 100 for status 0 or status >= 400.
C33_SingleStatsClassifyByStatus ==
    (SingleDelivered /\ delivered.results # <<>>)
        => IF IsSuccess(delivered.results[1].Status)
           THEN delivered.stats.Success = 1 /\ delivered.stats.ErrorRate = 0
           ELSE delivered.stats.Success = 0 /\ delivered.stats.ErrorRate = 100

\* C34: in the single-request path the completion handler always has a
\* result list with at least one entry, so results[0] is never out of range,
\* also when the construction of the request fails.
C34_SingleResultNeverEmpty ==
    /\ SingleDelivered => Len(delivered.results) >= 1
    /\ uiPanic # "index out of range"

\* C35: the run button goes Idle -> Running -> Idle with at most one run at a
\* time: a tap while isRunning starts nothing (it can only close the current
\* cancelChan), a run starts only through a tap made while not running and
\* with no goroutine of a run in its body, and isRunning is set by a tap and
\* reset by the completion handler only.
C35_OneRunAtATime ==
    /\ [](isRunning <=> pcDone # "none")
    /\ [](pcBg \in {"start", "single", "loadtest", "sendFirst", "sendSecond"}
            => isRunning)
    /\ [][(isRunning /\ taps' = taps + 1)
            => /\ isRunning'
               /\ cancelChan'.id = cancelChan.id
               /\ UNCHANGED <<pcBg, pcDone, pcProg, pcDefer, chans, chansMade,
                              cfg, pc, pcMain, results, sendCount>>]_vars
    /\ [][(pcBg' = "start" /\ pcBg # "start")
            => /\ ~isRunning /\ isRunning'
               /\ taps' = taps + 1
               /\ pcBg = "none"
               /\ pcDone = "none"
               /\ pcMain = "idle"
               /\ \A w \in Workers : pc[w] = "idle"]_vars
    /\ [][(isRunning /\ ~isRunning') => pcDone = "ready" /\ pcDone' = "none"]_vars

C35_Witness ==
    /\ isRunning
    /\ chansMade = 2
    /\ pcDefer[1] = "exited"
    /\ pcBg = "loadtest"
    /\ cancelled
    /\ taps = 3

\* what holds of the three channels of every run at every moment
ChannelSafety ==
    /\ uiPanic # "send on closed channel"
    /\ \A r \in RunIds :
          /\ chans[r].resultChan.sent <= 1
          /\ chans[r].statsChan.sent <= chans[r].resultChan.sent
          /\ chans[r].progressChan.closed
                => /\ pcDefer[r] = "exited"
                   /\ r = CurrentRun
                        => /\ pcBg \in {"none", "crashed"}
                           /\ pcMain = "idle"
                           /\ \A w \in Workers : pc[w] = "idle"
    /\ AtFirstSend => pcDone = "recvResults"
    /\ pcBg = "sendSecond" => pcDone = "recvStats"

\* C36: no worker sends on progressChan after it has been closed (it is
\* closed by the deferred call, after runLoadTest has returned and every
\* worker has exited); resultChan and statsChan carry at most one value each,
\* in the order of the receives; neither the sender nor the receiver blocks
\* forever.
C36_ChannelsNeverBlock ==
    /\ []ChannelSafety
    /\ (AtFirstSend \/ pcBg = "sendSecond") ~> (pcBg = "none")
    /\ (pcDone \in {"recvResults", "recvStats"}) ~> (pcDone = "ready")

\* C37: delivering a progress value never blocks a worker: whatever the
\* progress consumer is doing, the call of the sink can be taken, and when
\* the consumer is not at its receive the value is dropped and the worker
\* goes on.
C37_ProgressNeverBlocks ==
    /\ [](\A w \in Workers :
            (pc[w] = "progress" /\ pcBg = "loadtest") => ENABLED Progress(w))
    /\ [][\A w \in Workers :
            (/\ pc[w] = "progress" /\ pc'[w] # "progress"
             /\ pcBg = "loadtest" /\ pcProg[CurrentRun] # "recv")
                => /\ progressDropped' = progressDropped + 1
                   /\ progressCalls' = progressCalls + 1
                   /\ UNCHANGED <<pcProg, chans, uiPanic>>]_vars

C37_Witness ==
    /\ pcBg = "loadtest"
    /\ pcMain = "done"
    /\ pcProg[CurrentRun] = "busy"
    /\ progressCalls = 2
    /\ progressDropped = 1
    /\ Len(ret.results) = 2

\* C40: the Timestamp of every entry of the log is the time at which its
\* attempt completed, so the timestamps never decrease along the log.
C40_TimestampIsCompletionTime ==
    /\ \A i \in 1..Len(results) :
          results[i].Timestamp + results[i].Duration = results[i].Timestamp
    /\ \A i, j \in 1..Len(results) :
          i < j => results[i].Timestamp <= results[j].Timestamp

\* the lines of the raw header block of the request built
BlockLines ==
    IF req.cfg.Headers = <<>> THEN <<>> ELSE Split(req.cfg.Headers, "\n")

HasColon(line) ==
    \E i \in 1..Len(line) : line[i] = ":"

FirstColon(line) ==
    CHOOSE i \in 1..Len(line) : line[i] = ":" /\ \A j \in 1..(i - 1) : line[j] # ":"

\* the trimmed text before the first colon (header names do not depend on
\* the case of their letters: Header.Set stores the canonical spelling)
NameOf(line) ==
    CanonicalMIMEHeaderKey(TrimSpace(SubSeq(line, 1, FirstColon(line) - 1)))

\* the trimmed text after the first colon
ValueOf(line) ==
    TrimSpace(SubSeq(line, FirstColon(line) + 1, Len(line)))

\* the positions of the lines that name a header
ColonLines ==
    {i \in 1..Len(BlockLines) : HasColon(BlockLines[i])}

\* C38: in every request that carries an HMAC Authorization header the
\* X-Timestamp header sent is the message that was signed, whatever the raw
\* header block, also when the block has an X-Timestamp line of its own.
C38_SignedTimestampIsSent ==
    (req.built /\ Signs(req.cfg))
        => /\ XTimestamp \in DOMAIN req.Header
           /\ req.Header[XTimestamp] = req.signed

\* C39: every line of the raw block with a colon sets the header named by
\* the trimmed text before the first colon to the trimmed text after it
\* (later colons stay in the value, the last line of a name wins); a line
\* without a colon, empty or not, sets nothing and does not end the parsing.
C39_HeaderBlockParsing ==
    req.built
        => /\ \A i \in ColonLines :
                (/\ \A j \in ColonLines : j > i
                        => NameOf(BlockLines[j]) # NameOf(BlockLines[i])
                 /\ ~(Signs(req.cfg) /\ NameOf(BlockLines[i]) = Authorization))
                    => /\ NameOf(BlockLines[i]) \in DOMAIN req.Header
                       /\ req.Header[NameOf(BlockLines[i])] = ValueOf(BlockLines[i])
           /\ DOMAIN req.Header =
                {XTimestamp}
                  \cup (IF req.cfg.ContentType # <<>> THEN {ContentType} ELSE {})
                  \cup (IF Signs(req.cfg) THEN {Authorization} ELSE {})
                  \cup {NameOf(BlockLines[i]) : i \in ColonLines}
           /\ (\A i \in ColonLines : NameOf(BlockLines[i]) # XTimestamp)
                => req.Header[XTimestamp] = req.timestamp

C39_Witness ==
    /\ req.built
    /\ Len(BlockLines) = 3
    /\ HasColon(BlockLines[1])
    /\ ~HasColon(BlockLines[2])
    /\ HasColon(BlockLines[3])
    /\ BlockLines[1] # BlockLines[3]
    /\ NameOf(BlockLines[1]) = NameOf(BlockLines[3])
    /\ HasColon(ValueOf(BlockLines[3]))
    /\ req.Header[NameOf(BlockLines[3])] = ValueOf(BlockLines[3])

====
